---- MODULE Spec2Model ----
(***************************************************************************)
(* State-machine model of the streaming session layer of terplounge:      *)
(* server/src/session.rs (session store, inbound reader, end-of-stream,   *)
(* outbound pump, response integration, finalization, restore) and        *)
(* server/src/queue.rs (translation queue, worker dispatch).              *)
(*                                                                         *)
(* Granularity: one action per acquisition of the SESSIONS lock, together *)
(* with the synchronous code that follows it up to the next acquisition.  *)
(* A snapshot (get_session clones the record) is kept in the task's local *)
(* state and is as stale as the code lets it be.                          *)
(*                                                                         *)
(* RECORDINGS_DIR is taken to be set and writable, so every session has a *)
(* recording file, a transcript file and a metadata.json path.            *)
(* sample_rate, resource and silence_length take no part in any decision  *)
(* modelled here and are left out of the record.                          *)
(***************************************************************************)
EXTENDS Integers, Sequences, FiniteSets, TLC

\* ---------------------------------------------------------------- bounds
\* binary frames a client sends on one socket (one sample per frame)
MaxFrames == 2
\* POST /close/<uuid> requests served in one process lifetime
MaxClosePosts == 1
\* segments a recognizer returns for one chunk
MaxSegments == 2
\* worker threads subscribed to the translation queue
NumWorkers == 2
\* sockets accepted in one process lifetime
MaxConnections == 1

\* the UUIDs Uuid::new_v4() hands out, the languages of /chat?lang=
UuidPool == {"u1", "u2"}
Languages == {"de"}
SessionIds == 0 .. (Cardinality(UuidPool) - 1)

\* Option<usize>::None
None == -1

\* the two callers of mark_session_for_closure: the socket's reader task
\* (user_connected, line 456) and the POST /close handler (api.rs line 105)
Callers == {"ws", "http"}

\* ------------------------------------------------------------- sequences
RECURSIVE Concat(_)
\* concatenation of a sequence of sequences
Concat(ss) == IF ss = <<>> THEN <<>> ELSE Head(ss) \o Concat(Tail(ss))

\* v[p..] of Rust, for 0-based p <= len
DropFirst(v, p) == SubSeq(v, p + 1, Len(v))

\* v[..p] of Rust
TakeFirst(v, p) == SubSeq(v, 1, p)

\* --------------------------------------------------------------- records
\* a slot of the store that holds no session
Absent ==
  [present |-> FALSE, uuid |-> "", language |-> "", valid |-> FALSE, tx |-> FALSE,
   buffer |-> <<>>, sequence_number |-> 0, last_sequence |-> None,
   updated_at |-> 0, created_at |-> 0]

\* SessionData::new: the record of a fresh connection
SessionData_new(uuid, lang, t) ==
  [present |-> TRUE, uuid |-> uuid, language |-> lang, valid |-> TRUE, tx |-> TRUE,
   buffer |-> <<>>, sequence_number |-> 0, last_sequence |-> None,
   updated_at |-> t, created_at |-> t]

\* a file that does not exist / a file with content
NoFile == [exists |-> FALSE, data |-> <<>>]
NoWav == [exists |-> FALSE, data |-> 0]
File(d) == [exists |-> TRUE, data |-> d]

\* json!(self): the fields of SessionData that are not skip_serializing
\* (resource and sample_rate are constants of the model)
ToJson(session) ==
  [language |-> session.language, uuid |-> session.uuid,
   sequence_number |-> session.sequence_number,
   updated_at |-> session.updated_at, created_at |-> session.created_at]

\* serde_json::from_str::<SavedSessionData>: the fields SavedSessionData
\* declares; sequence_number is not among them, transcript is absent
FromJson(json) ==
  [language |-> json.language, uuid |-> json.uuid,
   updated_at |-> json.updated_at, created_at |-> json.created_at]

\* what restore_sessions seeds the collection with when the .txt is missing
TranscriptNotFound == <<"transcript not found! This is probably a bug.">>

\* expire_sessions is not running: no read guard, nothing to visit
NoSweep == [pc |-> "idle", readers |-> 0, todo |-> {}, now |-> 0, start |-> <<>>]

\* local state of a task that holds no snapshot
NoSnap == [buffer |-> <<>>, sequence_number |-> 0, tx |-> FALSE]
Snap(session) ==
  [buffer |-> session.buffer, sequence_number |-> session.sequence_number,
   tx |-> session.tx]

VARIABLES
  store,          \* SESSIONS: id -> SessionData (or Absent)
  translations,   \* id -> the shared Arc<Mutex<TranslationResponses>>
  next_user_id,   \* NEXT_USER_ID
  enqLog,         \* every request sent on QUEUE.sender, in send order
  qhead,          \* number of requests the subscribers have received
  jobs,           \* translate() calls in progress on worker threads
  deadWorkers,    \* subscribers that returned from subscribe
  reader,         \* id -> the reader loop of user_connected
  pump,           \* id -> the task spawned on WEBSOCKET_SEND_RUNTIME
  closer,         \* id -> caller -> a running mark_session_for_closure
  disk,           \* uuid -> the files under RECORDINGS_DIR/<uuid>/
  now,            \* Utc::now()
  sweep,          \* a running expire_sessions
  boot,           \* what restore_sessions returned to main at startup
  hist            \* history: counters and logs the claims are stated over

vars ==
  <<store, translations, next_user_id, enqLog, qhead, jobs, deadWorkers,
    reader, pump, closer, disk, now, sweep, boot, hist>>

\* ------------------------------------------------------ translate.rs
\* TranslationResponse of one segment of one request; its text is a
\* one-token string naming the request and the segment that produced it
Response(r, g, n) ==
  [sequence_number |-> enqLog[r].sequence_number, segment_number |-> g,
   num_segments |-> n, text |-> << <<r, g>> >>]

\* a response is final for its chunk
IsFinal(resp) == resp.segment_number = resp.num_segments - 1

\* TranslationResponses::new
TranslationResponses_new == {}

\* TranslationResponses::add_translation
add_translation(coll, resp) == coll \cup {resp}

\* TranslationResponses::translation_count: distinct completed chunks
translation_count(coll) ==
  Cardinality({resp.sequence_number : resp \in {x \in coll : IsFinal(x)}})

\* order of two responses in the transcript: chunk, then segment; two
\* responses of one chunk and segment (two requests carried the same
\* sequence number) stand in the order of their requests
Before(a, b) ==
  \/ a.sequence_number < b.sequence_number
  \/ /\ a.sequence_number = b.sequence_number
     /\ a.segment_number < b.segment_number
  \/ /\ a.sequence_number = b.sequence_number
     /\ a.segment_number = b.segment_number
     /\ a.text[1][1] < b.text[1][1]

RECURSIVE Sorted(_)
\* the responses of a collection in transcript order
Sorted(coll) ==
  IF coll = {} THEN <<>>
  ELSE LET first == CHOOSE a \in coll : \A b \in coll \ {a} : Before(a, b)
       IN  <<first>> \o Sorted(coll \ {first})

\* TranslationResponses::to_string: the texts in chunk order
to_string(coll) ==
  LET s == Sorted(coll) IN Concat([i \in 1 .. Len(s) |-> s[i].text])

\* TranslationResponses::new_from_string: a collection holding the stored
\* transcript as one completed chunk
new_from_string(transcript, uuid) ==
  {[sequence_number |-> 0, segment_number |-> 0, num_segments |-> 1,
    text |-> transcript]}

\* translate::find_silence: the pivots a segmenter may return for a buffer
\* (never 0, never beyond the buffer); None stands for "no cut"
find_silence(buffer) == {None} \cup (1 .. Len(buffer))

\* ------------------------------------------------------------ session.rs
\* SessionData::transcript
transcript(id) == to_string(translations[id])

\* SessionData::get_translation_count
get_translation_count(id) == translation_count(translations[id])

\* SessionData::status (resource and sample_rate are left out of the record)
status(id) ==
  [language |-> store[id].language, uuid |-> store[id].uuid,
   transcription_job_count |-> store[id].sequence_number,
   transcription_completed_count |-> get_translation_count(id)]

\* mutate_session: the record is replaced by fx, which is f applied to it,
\* and updated_at stamped; nothing happens when the id is not in the store
mutate_session(id, fx) ==
  IF store[id].present
  THEN [store EXCEPT ![id] = [fx EXCEPT !.updated_at = now]]
  ELSE store

\* mutant of find_session_with_uuid: the uuid is not compared
find_session_with_uuid_any(uuid) == {id \in SessionIds : store[id].present}

\* find_session_with_uuid
find_session_with_uuid(uuid) ==
  {id \in SessionIds : store[id].present /\ store[id].uuid = uuid}

\* TranslationQueue::enqueue: send on the unbounded channel; the static
\* QUEUE keeps a receiver alive, so the send does not fail
enqueue(log, id, seq, payload) ==
  Append(log, [session_id |-> id, sequence_number |-> seq, payload |-> payload])

\* persist_session_data: the WAV file is created when it does not exist and
\* buffer[..length] is written after what it holds; the file is kept as the
\* number of samples in it
persist_session_data(d, uuid, buffer, length) ==
  [d EXCEPT ![uuid].wav = File(@.data + Len(TakeFirst(buffer, length)))]

\* a clone of the channel's Sender is alive: the record's own, or one inside
\* a snapshot a running task still holds
SenderAlive(id) ==
  \/ store[id].present /\ store[id].tx
  \/ reader[id].pc \in {"append", "commit", "failed"} /\ reader[id].snap.tx
  \/ \E c \in Callers : closer[id][c].pc \in {"never", "commit"} /\ closer[id][c].snap.tx

\* Uuid::new_v4(): a uuid that was never handed out before (uuids being
\* interchangeable, the pool is drawn in one fixed order)
new_v4 == CHOOSE u \in UuidPool \ hist.used : TRUE

Init ==
  /\ store = [id \in SessionIds |-> Absent]
  /\ translations = [id \in SessionIds |-> TranslationResponses_new]
  /\ next_user_id = 0
  /\ enqLog = <<>>
  /\ qhead = 0
  /\ jobs = {}
  /\ deadWorkers = 0
  /\ reader = [id \in SessionIds |-> [pc |-> "none", snap |-> NoSnap, pivot |-> 0, frame |-> <<>>]]
  /\ pump = [id \in SessionIds |-> [pc |-> "none", snap |-> NoSnap]]
  /\ closer = [id \in SessionIds |-> [c \in Callers |-> [pc |-> "idle", snap |-> NoSnap]]]
  /\ disk = [u \in UuidPool |-> [wav |-> NoWav, txt |-> NoFile, metadata |-> NoFile]]
  /\ now = 0
  /\ sweep = NoSweep
  /\ boot = "Ok"
  /\ hist = [received |-> [id \in SessionIds |-> 0],
             posts |-> 0,
             finalized |-> [id \in SessionIds |-> 0],
             handed |-> [id \in SessionIds |-> {}],
             late |-> [id \in SessionIds |-> FALSE],
             used |-> {}]

\* ------------------------------------------------------------- user_connected
\* a socket is upgraded: id allocated, pump spawned, record built, the uuid
\* message sent (the socket may already refuse it), record inserted
user_connected(uuid, lang, sockfail) ==
  LET id == next_user_id IN
  /\ id \in SessionIds
  /\ hist.used # UuidPool
  /\ uuid = new_v4
  /\ next_user_id' = id + 1
  /\ store' = [store EXCEPT ![id] = SessionData_new(uuid, lang, now)]
  /\ translations' = [translations EXCEPT ![id] = TranslationResponses_new]
  /\ reader' = [reader EXCEPT ![id] = [pc |-> "recv", snap |-> NoSnap, pivot |-> 0, frame |-> <<>>]]
  /\ pump' = [pump EXCEPT ![id] = [pc |-> IF sockfail THEN "flush" ELSE "loop",
                                   snap |-> NoSnap]]
  /\ closer' = [closer EXCEPT ![id] = [c \in Callers |-> [pc |-> "idle", snap |-> NoSnap]]]
  /\ hist' = [hist EXCEPT !.received[id] = 0, !.finalized[id] = 0,
                          !.handed[id] = {}, !.late[id] = FALSE,
                          !.used = @ \cup {uuid}]
  /\ UNCHANGED <<boot, sweep, enqLog, qhead, jobs, deadWorkers, disk, now>>

\* the reader loop receives a binary frame: the check of line 444, then
\* user_message up to its snapshot (line 311)
ReaderFrame(id) ==
  /\ reader[id].pc = "recv"
  /\ hist.received[id] < MaxFrames
  /\ LET s == store[id]
         sample == hist.received[id] + 1
         stop == \/ ~s.present
                 \/ ~s.valid /\ s.last_sequence # None
                             /\ get_translation_count(id) = s.last_sequence
         panics == s.present /\ ~s.valid /\ s.last_sequence = None
     IN  /\ hist' = [hist EXCEPT !.received[id] = sample]
         /\ IF panics
            THEN /\ reader' = [reader EXCEPT ![id].pc = "panicked"]
                 /\ UNCHANGED closer
            ELSE IF stop
            THEN /\ reader' = [reader EXCEPT ![id].pc = "closing"]
                 /\ closer' = [closer EXCEPT ![id]["ws"].pc = "get"]
            ELSE IF ~s.tx
            THEN UNCHANGED <<reader, closer>>
            ELSE /\ reader' = [reader EXCEPT ![id] =
                       [pc |-> "append", snap |-> Snap(s), pivot |-> 0, frame |-> <<sample>>]]
                 /\ UNCHANGED closer
  /\ UNCHANGED <<boot, sweep, store, translations, next_user_id, enqLog, qhead, jobs, deadWorkers,
                 pump, disk, now>>

\* the receive times out (RECV_TIMEOUT_SECONDS have passed: the clock, which
\* is counted in receive timeouts, moves on), or it fails or the peer closes: the loop is left and
\* mark_session_for_closure is called (line 456)
ReaderEnd(id, timeout) ==
  /\ reader[id].pc = "recv"
  /\ now' = IF timeout THEN now + 1 ELSE now
  /\ reader' = [reader EXCEPT ![id].pc = "closing"]
  /\ closer' = [closer EXCEPT ![id]["ws"].pc = "get"]
  /\ UNCHANGED <<boot, sweep, store, translations, next_user_id, enqLog, qhead, jobs, deadWorkers,
                 pump, disk, hist>>

\* user_message, lines 318-347: the frame is appended to the stored buffer;
\* find_silence runs on the snapshot's buffer; on a pivot the chunk is
\* persisted and enqueued with the snapshot's sequence number
user_message_cut(id) ==
  /\ reader[id].pc = "append"
  /\ store' = mutate_session(id, [store[id] EXCEPT !.buffer = @ \o reader[id].frame])
  /\ \E pivot \in find_silence(reader[id].snap.buffer) :
       IF pivot = None
       THEN /\ reader' = [reader EXCEPT ![id] = [pc |-> "recv", snap |-> NoSnap, pivot |-> 0, frame |-> <<>>]]
            /\ UNCHANGED <<enqLog, disk>>
       ELSE /\ reader' = [reader EXCEPT ![id].pc = "commit", ![id].pivot = pivot, ![id].frame = <<>>]
            /\ disk' = persist_session_data(disk, store[id].uuid, reader[id].snap.buffer, pivot)
            /\ enqLog' = enqueue(enqLog, id, reader[id].snap.sequence_number,
                                 TakeFirst(reader[id].snap.buffer, pivot))
  /\ UNCHANGED <<boot, sweep, translations, next_user_id, qhead, jobs, deadWorkers, pump,
                 closer, now, hist>>

\* user_message, lines 352-357: the chunk is cut off the stored buffer and
\* the sequence number bumped; buffer[pivot..] panics when the stored buffer
\* has become shorter than the pivot, and the task ends there
user_message_commit(id) ==
  /\ reader[id].pc = "commit"
  /\ LET pivot == reader[id].pivot IN
     IF store[id].present /\ pivot > Len(store[id].buffer)
     THEN /\ reader' = [reader EXCEPT ![id] = [pc |-> "panicked", snap |-> NoSnap, pivot |-> 0, frame |-> <<>>]]
          /\ UNCHANGED store
     ELSE /\ reader' = [reader EXCEPT ![id] = [pc |-> "recv", snap |-> NoSnap, pivot |-> 0, frame |-> <<>>]]
          /\ store' = mutate_session(id,
                        [store[id] EXCEPT !.buffer = DropFirst(@, pivot),
                                          !.sequence_number = @ + 1])
  /\ UNCHANGED <<boot, sweep, translations, next_user_id, enqLog, qhead, jobs, deadWorkers, pump, closer, disk, now, hist>>

\* mutant of on_enqueue_error: the sequence number is bumped all the same
on_enqueue_error_bumped(x) ==
  [x EXCEPT !.tx = FALSE, !.valid = FALSE, !.sequence_number = @ + 1]

\* the closure of lines 361-364, run when the enqueue returned Err
on_enqueue_error(x) == [x EXCEPT !.tx = FALSE, !.valid = FALSE]

\* user_message, lines 318-347, with an enqueue that returns Err: the frame
\* is appended and the chunk persisted, no request is sent.  QUEUE holds a
\* Receiver of its own channel for as long as the process lives, so the
\* send of queue.rs line 31 does not fail in the program as built; this
\* step is the injected fault the Err arm of lines 359-366 is written for
\* and is part of SpecFault only
user_message_cut_failed(id) ==
  /\ reader[id].pc = "append"
  /\ store' = mutate_session(id, [store[id] EXCEPT !.buffer = @ \o reader[id].frame])
  /\ \E pivot \in find_silence(reader[id].snap.buffer) \ {None} :
       /\ reader' = [reader EXCEPT ![id].pc = "failed", ![id].pivot = pivot, ![id].frame = <<>>]
       /\ disk' = persist_session_data(disk, store[id].uuid, reader[id].snap.buffer, pivot)
  /\ UNCHANGED <<boot, sweep, translations, next_user_id, enqLog, qhead, jobs, deadWorkers, pump,
                 closer, now, hist>>

\* user_message, lines 359-366: the Err arm invalidates the session and
\* drops its sender
user_message_invalidate(id) ==
  /\ reader[id].pc = "failed"
  /\ store' = mutate_session(id, on_enqueue_error(store[id]))
  /\ reader' = [reader EXCEPT ![id] = [pc |-> "recv", snap |-> NoSnap, pivot |-> 0, frame |-> <<>>]]
  /\ UNCHANGED <<boot, sweep, translations, next_user_id, enqLog, qhead, jobs, deadWorkers, pump, closer, disk, now, hist>>

\* ------------------------------------------------- mark_session_for_closure
\* POST /close/<uuid>: mark_session_for_closure_uuid finds the session
close_post(uuid) ==
  /\ hist.posts < MaxClosePosts
  /\ \E id \in find_session_with_uuid(uuid) :
       /\ closer[id]["http"].pc = "idle"
       /\ closer' = [closer EXCEPT ![id]["http"].pc = "get"]
  /\ hist' = [hist EXCEPT !.posts = @ + 1]
  /\ UNCHANGED <<boot, sweep, store, translations, next_user_id, enqLog, qhead, jobs, deadWorkers,
                 reader, pump, disk, now>>

\* lines 475-503: snapshot; a never-used session goes to the early return,
\* otherwise the snapshot's buffer is persisted and enqueued
mark_session_for_closure_get(id, c) ==
  /\ closer[id][c].pc = "get"
  /\ LET s == store[id] IN
     IF ~s.present
     THEN /\ closer' = [closer EXCEPT ![id][c] = [pc |-> "panicked", snap |-> NoSnap]]
          /\ UNCHANGED <<enqLog, disk>>
     ELSE IF s.sequence_number = 0
     THEN /\ closer' = [closer EXCEPT ![id][c] = [pc |-> "never", snap |-> Snap(s)]]
          /\ UNCHANGED <<enqLog, disk>>
     ELSE /\ closer' = [closer EXCEPT ![id][c] = [pc |-> "commit", snap |-> Snap(s)]]
          /\ disk' = persist_session_data(disk, s.uuid, s.buffer, Len(s.buffer))
          /\ enqLog' = enqueue(enqLog, id, s.sequence_number, s.buffer)
  /\ UNCHANGED <<boot, sweep, store, translations, next_user_id, qhead, jobs, deadWorkers, reader, pump, now, hist>>

\* where a finished mark_session_for_closure leaves its caller
Returned(id, c) ==
  /\ closer' = [closer EXCEPT ![id][c] = [pc |-> IF c = "ws" THEN "done" ELSE "idle",
                                          snap |-> NoSnap]]
  /\ reader' = IF c = "ws" THEN [reader EXCEPT ![id].pc = "done"] ELSE reader

\* lines 478-482: the session was never used, the sender is dropped
mark_session_for_closure_never(id, c) ==
  /\ closer[id][c].pc = "never"
  /\ store' = mutate_session(id, [store[id] EXCEPT !.tx = FALSE])
  /\ Returned(id, c)
  /\ UNCHANGED <<boot, sweep, translations, next_user_id, enqLog, qhead, jobs, deadWorkers, pump, disk, now, hist>>

\* lines 504-515: last_sequence and the sentinel are stored from the snapshot
mark_session_for_closure_commit(id, c) ==
  /\ closer[id][c].pc = "commit"
  /\ LET last_sequence == closer[id][c].snap.sequence_number IN
     store' = mutate_session(id,
                [store[id] EXCEPT !.buffer = <<>>,
                                  !.last_sequence = last_sequence,
                                  !.sequence_number = last_sequence + 1])
  /\ Returned(id, c)
  /\ UNCHANGED <<boot, sweep, translations, next_user_id, enqLog, qhead, jobs, deadWorkers, pump, disk, now, hist>>

\* ------------------------------------------------------------ outbound pump
\* The pump forwards each message of the channel to the socket as it comes
\* (lines 388-391), so the channel itself is not kept: a send on the channel
\* is a send on the socket, and the place where that send can fail (lines
\* 392-395, the loop breaks) is the action that sends the message.
SocketSendFails(p, id) == [p EXCEPT ![id].pc = "flush"]

\* line 388: every Sender is dropped, the channel's iterator ends
pump_disconnected(id) ==
  /\ pump[id].pc = "loop"
  /\ ~SenderAlive(id)
  /\ pump' = [pump EXCEPT ![id].pc = "flush"]
  /\ UNCHANGED <<boot, sweep, store, translations, next_user_id, enqLog, qhead, jobs, deadWorkers,
                 reader, closer, disk, now, hist>>

\* lines 399-408: snapshot, and the snapshot's buffer enqueued under the
\* snapshot's sequence number
pump_flush(id) ==
  /\ pump[id].pc = "flush"
  /\ LET s == store[id] IN
     IF ~s.present
     THEN /\ pump' = [pump EXCEPT ![id] = [pc |-> "done", snap |-> NoSnap]]
          /\ UNCHANGED enqLog
     ELSE /\ pump' = [pump EXCEPT ![id] = [pc |-> "bump", snap |-> Snap(s)]]
          /\ enqLog' = enqueue(enqLog, id, s.sequence_number, s.buffer)
  /\ UNCHANGED <<boot, sweep, store, translations, next_user_id, qhead, jobs, deadWorkers, reader, closer, disk, now, hist>>

\* lines 409-416: the sequence number bumped, the snapshot's buffer persisted
pump_bump(id) ==
  /\ pump[id].pc = "bump"
  /\ store' = mutate_session(id, [store[id] EXCEPT !.sequence_number = @ + 1])
  /\ disk' = IF store[id].present
             THEN persist_session_data(disk, store[id].uuid, pump[id].snap.buffer,
                                       Len(pump[id].snap.buffer))
             ELSE disk
  /\ pump' = [pump EXCEPT ![id] = [pc |-> "done", snap |-> NoSnap]]
  /\ UNCHANGED <<boot, sweep, translations, next_user_id, enqLog, qhead, jobs, deadWorkers, reader, closer, now, hist>>

\* ------------------------------------------------------------------ queue.rs
\* requests whose session_id is id, in the order they were enqueued
RequestsOf(id) == SelectSeq(enqLog, LAMBDA r : r.session_id = id)

\* mutant of subscribe: the request is read but stays in the channel
subscribe_peek(n, fails) ==
  /\ qhead < Len(enqLog)
  /\ Cardinality(jobs) + deadWorkers < NumWorkers
  /\ qhead' = qhead
  /\ LET r == qhead + 1
         req == enqLog[r]
         session == store[req.session_id]
     IN  IF session.present /\ session.valid
         THEN /\ n = 0 <=> (fails \/ req.payload = <<>>)
              /\ jobs' = IF n > 0 THEN jobs \cup {[req |-> r, seg |-> 0, num |-> n]} ELSE jobs
              /\ deadWorkers' = IF fails THEN deadWorkers + 1 ELSE deadWorkers
         ELSE /\ n = 0 /\ ~fails
              /\ UNCHANGED <<jobs, deadWorkers>>
  /\ UNCHANGED <<boot, sweep, store, translations, next_user_id, enqLog, reader, pump,
                 closer, disk, now, hist>>

\* mutant of subscribe: the session is not looked at
subscribe_unchecked(n, fails) ==
  /\ qhead < Len(enqLog)
  /\ Cardinality(jobs) + deadWorkers < NumWorkers
  /\ qhead' = qhead + 1
  /\ LET r == qhead + 1
         req == enqLog[r]
         session == store[req.session_id]
     IN  IF TRUE
         THEN /\ n = 0 <=> (fails \/ req.payload = <<>>)
              /\ jobs' = IF n > 0 THEN jobs \cup {[req |-> r, seg |-> 0, num |-> n]} ELSE jobs
              /\ deadWorkers' = IF fails THEN deadWorkers + 1 ELSE deadWorkers
         ELSE /\ n = 0 /\ ~fails
              /\ UNCHANGED <<jobs, deadWorkers>>
  /\ UNCHANGED <<boot, sweep, store, translations, next_user_id, enqLog, reader, pump,
                 closer, disk, now, hist>>

\* subscribe, lines 45-59: a free worker receives the next request and reads
\* the session; the request goes to translate only when the session is in
\* the store and valid.  The recognizer then answers with n segments (none
\* for an empty payload), or fails without a response, and a failure makes
\* subscribe return
subscribe(n, fails) ==
  /\ qhead < Len(enqLog)
  /\ Cardinality(jobs) + deadWorkers < NumWorkers
  /\ qhead' = qhead + 1
  /\ LET r == qhead + 1
         req == enqLog[r]
         session == store[req.session_id]
     IN  IF session.present /\ session.valid
         THEN /\ n = 0 <=> (fails \/ req.payload = <<>>)
              /\ jobs' = IF n > 0 THEN jobs \cup {[req |-> r, seg |-> 0, num |-> n]} ELSE jobs
              /\ deadWorkers' = IF fails THEN deadWorkers + 1 ELSE deadWorkers
         ELSE /\ n = 0 /\ ~fails
              /\ UNCHANGED <<jobs, deadWorkers>>
  /\ UNCHANGED <<boot, sweep, store, translations, next_user_id, enqLog, reader, pump,
                 closer, disk, now, hist>>

\* ------------------------------------------------------------- finalization
\* mutant of record_transcript: the transcript is taken from the collection
\* as the store shows it, before the response in hand was added
record_transcript_stale(d, uuid, coll) ==
  LET id == CHOOSE i \in SessionIds : store[i].present /\ store[i].uuid = uuid
  IN  [d EXCEPT ![uuid].txt = File(to_string(translations[id]))]

\* SessionData::record_transcript: the transcript file is (re)written
record_transcript(d, uuid, coll) == [d EXCEPT ![uuid].txt = File(to_string(coll))]

\* SessionData::write_metadata: metadata.json is (re)written from self
write_metadata(d, session) == [d EXCEPT ![session.uuid].metadata = File(ToJson(session))]

\* mutant of Invalidate: valid is cleared, the sender is kept
Invalidate_keep_sender(x) == [x EXCEPT !.valid = FALSE]

\* the closure finalize_session hands to mutate_session_sync
Invalidate(x) == [x EXCEPT !.tx = FALSE, !.valid = FALSE]

\* the test of process_transcription, lines 233-236, on its snapshot and the
\* collection after add_translation
ShouldFinalize(session, response, coll) ==
  /\ session.last_sequence # None
  /\ session.sequence_number >= session.last_sequence
  /\ IsFinal(response)
  /\ translation_count(coll) > session.last_sequence

\* mutant of Integrate: a response that cannot be sent is not added
Integrate_sent(id, response) ==
  IF store[id].tx /\ pump[id].pc = "loop"
  THEN add_translation(translations[id], response)
  ELSE translations[id]

\* process_transcription, lines 226-231: the response is added to the
\* session's shared collection
Integrate(id, response) == add_translation(translations[id], response)

\* process_transcription: a worker hands over the next segment of its job.
\* The response is sent on the session's channel when it has a sender (and
\* from there on the socket, which may fail), added
\* to the collection, and finalize_session runs when the test passes.  An
\* absent session makes the unwrap of line 212 panic and the worker is lost
process_transcription(job, sockfail) ==
  /\ job \in jobs
  /\ UNCHANGED <<boot, sweep, next_user_id, enqLog, qhead, reader, closer, now>>
  /\ LET id == enqLog[job.req].session_id
         session == store[id]
         response == Response(job.req, job.seg, job.num)
         coll == Integrate(id, response)
         late == \E earlier \in hist.handed[id] : Before(response, earlier)
         rest == IF job.seg + 1 < job.num
                 THEN {[job EXCEPT !.seg = @ + 1]} ELSE {}
     IN
     /\ IF ~session.present
        THEN /\ jobs' = jobs \ {job}
             /\ deadWorkers' = deadWorkers + 1
             /\ ~sockfail
             /\ UNCHANGED <<store, translations, pump, disk, hist>>
        ELSE /\ jobs' = (jobs \ {job}) \cup rest
             /\ UNCHANGED deadWorkers
             /\ sockfail => session.tx /\ pump[id].pc = "loop"
             /\ pump' = IF sockfail THEN SocketSendFails(pump, id) ELSE pump
             /\ translations' = [translations EXCEPT ![id] = coll]
             /\ IF ShouldFinalize(session, response, coll)
                THEN /\ disk' = write_metadata(record_transcript(disk, session.uuid, coll), session)
                     /\ store' = mutate_session(id, Invalidate(store[id]))
                     /\ hist' = [hist EXCEPT !.handed[id] = @ \cup {response},
                                             !.late[id] = @ \/ late,
                                             !.finalized[id] = @ + 1]
                ELSE /\ UNCHANGED <<store, disk>>
                     /\ hist' = [hist EXCEPT !.handed[id] = @ \cup {response},
                                             !.late[id] = @ \/ late]

\* ------------------------------------------------------------------ restart
\* mutant of Restored: the restored record is built valid
Restored_valid(files) ==
  LET saved == FromJson(files.metadata.data) IN
  [present |-> TRUE, uuid |-> saved.uuid, language |-> saved.language,
   valid |-> TRUE, tx |-> FALSE, buffer |-> <<>>, sequence_number |-> 1,
   last_sequence |-> 1, updated_at |-> saved.updated_at,
   created_at |-> saved.created_at]

\* the record restore_sessions builds from one stored session
Restored(files) ==
  LET saved == FromJson(files.metadata.data) IN
  [present |-> TRUE, uuid |-> saved.uuid, language |-> saved.language,
   valid |-> FALSE, tx |-> FALSE, buffer |-> <<>>, sequence_number |-> 1,
   last_sequence |-> 1, updated_at |-> saved.updated_at,
   created_at |-> saved.created_at]

\* mutant of RestoredTranslations: the transcript file is not read
RestoredTranslations_unread(files) ==
  new_from_string(TranscriptNotFound, files.metadata.data.uuid)

\* the collection restore_sessions builds from one stored session
RestoredTranslations(files) ==
  new_from_string(IF files.txt.exists THEN files.txt.data ELSE TranscriptNotFound,
                  files.metadata.data.uuid)

\* serde_json::from_str::<SavedSessionData> succeeds (line 561): the text is
\* JSON and has the fields SavedSessionData requires
Parses(json) == {"language", "uuid", "updated_at", "created_at"} \subseteq DOMAIN json

\* a metadata.json that is not JSON (cut short, or overwritten)
Garbled == [garbled |-> TRUE]

\* the directories of RECORDINGS_DIR that hold a metadata.json
SavedUuids == {u \in UuidPool : disk[u].metadata.exists}

\* the process stops and is started again: everything in memory is gone,
\* main calls restore_sessions, which reads the stored sessions in read_dir
\* order, gives them the ids 0, 1, ... and sets NEXT_USER_ID after them.
\* (A process that never had a connection restarts into its initial state;
\* that restart is left out.)
restore_sessions ==
  /\ hist.used # {}
  /\ IF \A u \in SavedUuids : Parses(disk[u].metadata.data)
     THEN \E order \in [1 .. Cardinality(SavedUuids) -> SavedUuids] :
       /\ \A i, j \in DOMAIN order : i # j => order[i] # order[j]
       /\ store' = [id \in SessionIds |->
                      IF id < Len(order) THEN Restored(disk[order[id + 1]]) ELSE Absent]
       /\ translations' = [id \in SessionIds |->
                      IF id < Len(order) THEN RestoredTranslations(disk[order[id + 1]])
                      ELSE TranslationResponses_new]
       /\ next_user_id' = Len(order)
       /\ boot' = "Ok"
     ELSE \* line 561: the ? returns the parse error before anything is
          \* inserted, and main's unwrap (main.rs line 45) ends the process
       /\ store' = [id \in SessionIds |-> Absent]
       /\ translations' = [id \in SessionIds |-> TranslationResponses_new]
       /\ next_user_id' = 1
       /\ boot' = "Err"
  /\ enqLog' = <<>>
  /\ qhead' = 0
  /\ jobs' = {}
  /\ deadWorkers' = 0
  /\ reader' = [id \in SessionIds |-> [pc |-> "none", snap |-> NoSnap, pivot |-> 0, frame |-> <<>>]]
  /\ pump' = [id \in SessionIds |-> [pc |-> "none", snap |-> NoSnap]]
  /\ closer' = [id \in SessionIds |-> [c \in Callers |-> [pc |-> "idle", snap |-> NoSnap]]]
  /\ hist' = [received |-> [id \in SessionIds |-> 0],
              posts |-> 0,
              finalized |-> [id \in SessionIds |-> 0],
              handed |-> [id \in SessionIds |-> {}],
             late |-> [id \in SessionIds |-> FALSE],
              used |-> hist.used]
  /\ UNCHANGED <<sweep, disk, now>>

Next ==
  \/ \E uuid \in UuidPool, lang \in Languages, sockfail \in BOOLEAN :
       Cardinality(hist.used) < MaxConnections /\ user_connected(uuid, lang, sockfail)
  \/ \E id \in SessionIds : ReaderFrame(id)
  \/ \E id \in SessionIds, timeout \in BOOLEAN : ReaderEnd(id, timeout)
  \/ \E id \in SessionIds : user_message_cut(id)
  \/ \E id \in SessionIds : user_message_commit(id)
  \/ \E uuid \in UuidPool : close_post(uuid)
  \/ \E id \in SessionIds, c \in Callers : mark_session_for_closure_get(id, c)
  \/ \E id \in SessionIds, c \in Callers : mark_session_for_closure_never(id, c)
  \/ \E id \in SessionIds, c \in Callers : mark_session_for_closure_commit(id, c)
  \/ \E id \in SessionIds : pump_disconnected(id)
  \/ \E id \in SessionIds : pump_flush(id)
  \/ \E id \in SessionIds : pump_bump(id)
  \/ \E n \in 0 .. MaxSegments, fails \in BOOLEAN : subscribe(n, fails)
  \/ \E job \in jobs, sockfail \in BOOLEAN : process_transcription(job, sockfail)
  \/ restore_sessions

Spec == Init /\ [][Next]_vars

\* The steps the program takes by itself: the tasks on the tokio runtimes
\* and the worker threads run whenever they can.  Frames, socket ends,
\* POST /close and restarts are the environment's and are not promised.
Fairness ==
  /\ \A id \in SessionIds :
       /\ WF_vars(user_message_cut(id))
       /\ WF_vars(user_message_commit(id))
       /\ WF_vars(pump_disconnected(id))
       /\ WF_vars(pump_flush(id))
       /\ WF_vars(pump_bump(id))
       /\ \A c \in Callers :
            /\ WF_vars(mark_session_for_closure_get(id, c))
            /\ WF_vars(mark_session_for_closure_never(id, c))
            /\ WF_vars(mark_session_for_closure_commit(id, c))
  /\ WF_vars(\E n \in 0 .. MaxSegments, fails \in BOOLEAN : subscribe(n, fails))
  /\ WF_vars(\E job \in jobs : process_transcription(job, FALSE))

LiveSpec == Spec /\ Fairness

\* Two sockets side by side.  To keep two sessions within reach the sockets
\* stay writable (the pump stays in its loop), the recognizer does not fail
\* and the process is not restarted.
NextTwo ==
  \/ \E uuid \in UuidPool, lang \in Languages : user_connected(uuid, lang, FALSE)
  \/ \E id \in SessionIds : ReaderFrame(id)
  \/ \E id \in SessionIds : ReaderEnd(id, FALSE)
  \/ \E id \in SessionIds : user_message_cut(id)
  \/ \E id \in SessionIds : user_message_commit(id)
  \/ \E uuid \in UuidPool : close_post(uuid)
  \/ \E id \in SessionIds, c \in Callers : mark_session_for_closure_get(id, c)
  \/ \E id \in SessionIds, c \in Callers : mark_session_for_closure_never(id, c)
  \/ \E id \in SessionIds, c \in Callers : mark_session_for_closure_commit(id, c)
  \/ \E n \in 0 .. MaxSegments : subscribe(n, FALSE)
  \/ \E job \in jobs : process_transcription(job, FALSE)

SpecTwo == Init /\ [][NextTwo]_vars

\* The program with the fault the Err arm of user_message handles: an
\* enqueue may return Err.
NextFault ==
  \/ Next
  \/ \E id \in SessionIds : user_message_cut_failed(id)
  \/ \E id \in SessionIds : user_message_invalidate(id)

SpecFault == Init /\ [][NextFault]_vars

\* ------------------------------------------------------------ expire_sessions
\* the age in seconds beyond which a session is expired (line 521)
ExpirySeconds == 86400

\* the seconds, before the day and after it, the sweep is tried at
SweepTimes == {0, 1, 2}

\* line 521: the test on one session, with the timestamp taken at line 519
Expired(session, t) == t - session.updated_at > ExpirySeconds

\* lines 519-520: the timestamp is taken and the read guard acquired; the
\* guard is a temporary of the for expression and lives as long as the loop
expire_begin ==
  /\ sweep.pc = "idle"
  /\ sweep' = [pc |-> "iter", readers |-> 1,
               todo |-> {id \in SessionIds : store[id].present},
               now |-> now, start |-> store]
  /\ UNCHANGED <<store, translations, next_user_id, enqLog, qhead, jobs, deadWorkers,
                 reader, pump, closer, disk, now, boot, hist>>

\* lines 520-523 with remove_session (300-303): the next entry of the map,
\* in the map's own order; an expired one is removed under the write lock,
\* which is granted only when no read guard is held, and the task waits for
\* it otherwise
expire_visit(id) ==
  /\ sweep.pc = "iter"
  /\ id \in sweep.todo
  /\ IF Expired(store[id], sweep.now)
     THEN IF sweep.readers > 0
          THEN /\ sweep' = [sweep EXCEPT !.pc = "blocked"]
               /\ UNCHANGED store
          ELSE /\ sweep' = [sweep EXCEPT !.todo = @ \ {id}]
               /\ store' = [store EXCEPT ![id] = Absent]
     ELSE /\ sweep' = [sweep EXCEPT !.todo = @ \ {id}]
          /\ UNCHANGED store
  /\ UNCHANGED <<translations, next_user_id, enqLog, qhead, jobs, deadWorkers,
                 reader, pump, closer, disk, now, boot, hist>>

\* line 525: the loop is over, the guard dropped, Ok returned
expire_return ==
  /\ sweep.pc = "iter"
  /\ sweep.todo = {}
  /\ sweep' = [sweep EXCEPT !.pc = "done", !.readers = 0]
  /\ UNCHANGED <<store, translations, next_user_id, enqLog, qhead, jobs, deadWorkers,
                 reader, pump, closer, disk, now, boot, hist>>

\* expire_sessions has no caller, so it is run by itself: on a store of
\* idle connected sessions whose last update lies a day and a few seconds
\* back at most (timestamps in seconds)
InitExpire ==
  /\ \E k \in 0 .. Cardinality(SessionIds), at \in [SessionIds -> SweepTimes],
        uuid \in [SessionIds -> UuidPool] :
       /\ \A i, j \in SessionIds : i # j => uuid[i] # uuid[j]
       /\ store = [id \in SessionIds |->
                     IF id < k THEN SessionData_new(uuid[id], "de", at[id]) ELSE Absent]
       /\ next_user_id = k
       /\ reader = [id \in SessionIds |->
                      [pc |-> IF id < k THEN "recv" ELSE "none", snap |-> NoSnap,
                       pivot |-> 0, frame |-> <<>>]]
       /\ pump = [id \in SessionIds |->
                    [pc |-> IF id < k THEN "loop" ELSE "none", snap |-> NoSnap]]
       /\ hist = [received |-> [id \in SessionIds |-> 0],
                  posts |-> 0,
                  finalized |-> [id \in SessionIds |-> 0],
                  handed |-> [id \in SessionIds |-> {}],
                  late |-> [id \in SessionIds |-> FALSE],
                  used |-> {uuid[id] : id \in {i \in SessionIds : i < k}}]
  /\ now \in {ExpirySeconds + t : t \in SweepTimes}
  /\ translations = [id \in SessionIds |-> TranslationResponses_new]
  /\ enqLog = <<>>
  /\ qhead = 0
  /\ jobs = {}
  /\ deadWorkers = 0
  /\ closer = [id \in SessionIds |-> [c \in Callers |-> [pc |-> "idle", snap |-> NoSnap]]]
  /\ disk = [u \in UuidPool |-> [wav |-> NoWav, txt |-> NoFile, metadata |-> NoFile]]
  /\ sweep = NoSweep
  /\ boot = "Ok"

NextExpire ==
  \/ expire_begin
  \/ \E id \in SessionIds : expire_visit(id)
  \/ expire_return

SpecExpire == InitExpire /\ [][NextExpire]_vars

\* ------------------------------------------------------------ startup
\* what a directory of RECORDINGS_DIR may hold when the process starts: a
\* recording with no metadata.json (the session was never finalized), with
\* the metadata.json and transcript a finalization wrote, or with a
\* metadata.json that does not parse
StoredFiles(u) ==
  {[wav |-> File(1), txt |-> txt, metadata |-> metadata] :
     txt \in {NoFile, File(<< <<1, 0>> >>)},
     metadata \in {NoFile, File(Garbled)}
                \cup {File(ToJson(SessionData_new(u, "de", t))) : t \in {0, 1}}}

\* the process is about to start on a RECORDINGS_DIR left by earlier runs
InitRestore ==
  /\ disk \in {d \in [UuidPool -> UNION {StoredFiles(u) : u \in UuidPool}] :
                 \A u \in UuidPool : d[u] \in StoredFiles(u)}
  /\ store = [id \in SessionIds |-> Absent]
  /\ translations = [id \in SessionIds |-> TranslationResponses_new]
  /\ next_user_id = 1
  /\ enqLog = <<>>
  /\ qhead = 0
  /\ jobs = {}
  /\ deadWorkers = 0
  /\ reader = [id \in SessionIds |-> [pc |-> "none", snap |-> NoSnap, pivot |-> 0, frame |-> <<>>]]
  /\ pump = [id \in SessionIds |-> [pc |-> "none", snap |-> NoSnap]]
  /\ closer = [id \in SessionIds |-> [c \in Callers |-> [pc |-> "idle", snap |-> NoSnap]]]
  /\ now = 2
  /\ sweep = NoSweep
  /\ boot = "none"
  /\ hist = [received |-> [id \in SessionIds |-> 0],
             posts |-> 0,
             finalized |-> [id \in SessionIds |-> 0],
             handed |-> [id \in SessionIds |-> {}],
             late |-> [id \in SessionIds |-> FALSE],
             used |-> UuidPool]

NextRestore == boot = "none" /\ restore_sessions

SpecRestore == InitRestore /\ [][NextRestore]_vars

\* ================================================================== claims
\* a session of this process lifetime that came from a socket (restored
\* sessions have no reader and no pump)
Live(id) == store[id].present /\ pump[id].pc # "none"

\* a session built by restore_sessions
IsRestored(id) == store[id].present /\ pump[id].pc = "none"

\* the sequence numbers of a sequence of requests
SeqNumbers(rs) == {rs[i].sequence_number : i \in DOMAIN rs}

\* no task is between two steps of an operation on the session
AtRest(id) ==
  /\ reader[id].pc \in {"recv", "done"}
  /\ pump[id].pc \in {"loop", "done"}
  /\ \A c \in Callers : closer[id][c].pc \in {"idle", "done"}

\* the step hands a response of the session to process_transcription
Integrates(id) ==
  /\ hist.handed[id] # hist'.handed[id]
  /\ hist.handed[id] \subseteq hist'.handed[id]

\* the collection holds a final response for every chunk 0 .. L
Complete(coll, L) ==
  \A k \in 0 .. L : \E resp \in coll : resp.sequence_number = k /\ IsFinal(resp)

\* C1: once end-of-stream has run and the pump has exited, the sequence
\* numbers of the session's enqueued requests are exactly 0 .. last_sequence,
\* each carried by one request
C1_SequenceNumbersExact ==
  \A id \in SessionIds :
    (Live(id) /\ store[id].last_sequence # None
       /\ reader[id].pc = "done" /\ pump[id].pc = "done"
       /\ \A c \in Callers : closer[id][c].pc \in {"idle", "done"})
    => LET rs == RequestsOf(id) IN
       /\ SeqNumbers(rs) = 0 .. store[id].last_sequence
       /\ \A i, j \in DOMAIN rs : i # j => rs[i].sequence_number # rs[j].sequence_number

\* C2: once last_sequence = L is stored, no step enqueues a request of the
\* session with a sequence number above L
C2_NothingAboveLast ==
  [][\A id \in SessionIds :
       (Live(id) /\ store[id].last_sequence # None /\ Len(enqLog') > Len(enqLog))
       => \A i \in (Len(enqLog) + 1) .. Len(enqLog') :
            enqLog'[i].session_id = id
            => enqLog'[i].sequence_number <= store[id].last_sequence]_vars

\* C3: process_transcription invokes finalize_session only when last_sequence
\* = L is set and the collection holds a final response for every chunk
\* 0 .. L, and it does invoke it when a response makes that true
C3_FinalizeIffComplete ==
  [][\A id \in SessionIds :
       LET L == store[id].last_sequence IN
       /\ hist'.finalized[id] > hist.finalized[id]
          => L # None /\ Complete(translations'[id], L)
       /\ (Live(id) /\ L # None /\ Integrates(id)
             /\ ~Complete(translations[id], L) /\ Complete(translations'[id], L))
          => hist'.finalized[id] > hist.finalized[id]]_vars

\* the chunk and the segment a token of a transcript came from
TokenSeq(tok) == enqLog[tok[1]].sequence_number
TokenSeg(tok) == tok[2]

RECURSIVE InSequenceOrder(_)
\* requests ordered by sequence number, equal numbers in enqueue order
InSequenceOrder(rs) ==
  IF rs = <<>> THEN <<>>
  ELSE LET m == CHOOSE i \in DOMAIN rs :
                  /\ \A j \in DOMAIN rs : rs[i].sequence_number <= rs[j].sequence_number
                  /\ \A j \in 1 .. (i - 1) : rs[j].sequence_number # rs[i].sequence_number
       IN  <<rs[m]>> \o InSequenceOrder(SubSeq(rs, 1, m - 1) \o SubSeq(rs, m + 1, Len(rs)))

\* C5: whenever no operation on the session is half done, the payloads of
\* its requests in sequence order followed by the stored buffer are the
\* samples received so far, in arrival order
C5_SampleConservation ==
  \A id \in SessionIds :
    (Live(id) /\ AtRest(id))
    => LET rs == InSequenceOrder(RequestsOf(id)) IN
       Concat([i \in DOMAIN rs |-> rs[i].payload]) \o store[id].buffer
         = [i \in 1 .. hist.received[id] |-> i]

\* C6: after a session has been finalized, a response integrated by
\* process_transcription leaves the transcript file, metadata.json and the
\* session's valid = false as they are
C6_FinalizeIdempotent ==
  [][\A id \in SessionIds :
       (Live(id) /\ hist.finalized[id] >= 1 /\ Integrates(id))
       => /\ disk'[store[id].uuid].txt = disk[store[id].uuid].txt
          /\ disk'[store[id].uuid].metadata = disk[store[id].uuid].metadata
          /\ store'[id].valid = FALSE]_vars

C8_ValidMonotonic ==
  [][\A id, id2 \in SessionIds :
       (/\ store[id].present /\ ~store[id].valid
        /\ store'[id2].present /\ store'[id2].uuid = store[id].uuid)
       => ~store'[id2].valid]_vars

\* C8 witness: a restart has restored a finalized session as invalid, and a
\* POST /close has since written to its record, which is still invalid
C8_Witness ==
  \E id \in SessionIds :
    /\ IsRestored(id) /\ ~store[id].valid
    /\ hist.posts >= 1 /\ store[id].sequence_number > 1
    /\ disk[store[id].uuid].txt.exists

\* a step that writes sequence_number of the session
WritesSequenceNumber(id) ==
  \/ user_message_commit(id) /\ reader'[id].pc = "recv"
  \/ pump_bump(id)
  \/ \E c \in Callers : mark_session_for_closure_commit(id, c)

\* C9: every write to a session's sequence_number stores a value strictly
\* greater than the one it replaces
C9_SequenceNumberIncreases ==
  [][\A id \in SessionIds :
       (store[id].present /\ WritesSequenceNumber(id))
       => store'[id].sequence_number > store[id].sequence_number]_vars

\* C10: the requests of one session enter the queue in strictly increasing
\* sequence_number order
C10_EnqueueOrder ==
  \A id \in SessionIds :
    LET rs == RequestsOf(id) IN
    \A i, j \in DOMAIN rs : i < j => rs[i].sequence_number < rs[j].sequence_number

\* a step of POST /close/<uuid of a>: the request itself, or a step of the
\* mark_session_for_closure it calls
ClosesByUuid(a) ==
  \/ store[a].present /\ close_post(store[a].uuid)
  \/ mark_session_for_closure_get(a, "http")
  \/ mark_session_for_closure_never(a, "http")
  \/ mark_session_for_closure_commit(a, "http")

\* the step leaves session b as it is and enqueues nothing for it
Untouched(b) ==
  /\ store'[b].buffer = store[b].buffer
  /\ store'[b].sequence_number = store[b].sequence_number
  /\ store'[b].last_sequence = store[b].last_sequence
  /\ store'[b].valid = store[b].valid
  /\ store'[b].tx = store[b].tx
  /\ translations'[b] = translations[b]
  /\ closer'[b] = closer[b]
  /\ SelectSeq(enqLog', LAMBDA r : r.session_id = b) = RequestsOf(b)

\* C13: a close of session a by its uuid leaves every other session's
\* buffer, sequence_number, last_sequence, valid, channel and collection as
\* they are, starts no close of it and enqueues no request for it
C13_CloseLeavesOthers ==
  [][\A a, b \in SessionIds :
       (a # b /\ store[b].present /\ ClosesByUuid(a)) => Untouched(b)]_vars

\* C13 witness: session a was closed by its uuid while its socket was still
\* open, and session b is streaming with samples buffered, a chunk enqueued
\* and a response integrated
C13_Witness ==
  \E a, b \in SessionIds :
    /\ a # b /\ Live(a) /\ Live(b) /\ hist.posts >= 1
    /\ reader[a].pc = "recv" /\ store[a].last_sequence # None
    /\ reader[b].pc = "recv" /\ store[b].last_sequence = None
    /\ store[b].valid /\ store[b].tx
    /\ store[b].buffer # <<>> /\ store[b].sequence_number >= 1
    /\ translations[b] # {}

\* end-of-stream found the session never used (sequence_number = 0): the
\* reader's mark_session_for_closure took the early return of lines 476-483
\* and has returned, and no later close has stored a last_sequence
ZeroAudioEnded(id) ==
  /\ Live(id) /\ reader[id].pc = "done"
  /\ store[id].last_sequence = None

\* C11: a zero-audio session has no request enqueued and no WAV file,
\* transcript file or metadata.json, whatever the outbound pump does after
\* the sender is dropped
C11_ZeroAudioNoTrace ==
  \A id \in SessionIds :
    ZeroAudioEnded(id)
    => /\ RequestsOf(id) = <<>>
       /\ ~disk[store[id].uuid].wav.exists
       /\ ~disk[store[id].uuid].txt.exists
       /\ ~disk[store[id].uuid].metadata.exists

\* C12: once last_sequence = L is stored and the collection holds a final
\* response for every chunk 0 .. L, the session is eventually finalized
\* (or the process is restarted before)
C12_EventuallyFinalized ==
  \A id \in SessionIds :
    (/\ Live(id) /\ store[id].last_sequence # None
     /\ Complete(translations[id], store[id].last_sequence))
    ~> (~Live(id) \/ hist.finalized[id] >= 1)

\* chunk k of the session will never have a response: every request that
\* carries k has been received by a worker, none of them is being
\* translated and none has produced a response
NeverAnswered(id, k) ==
  /\ \E i \in DOMAIN enqLog :
       enqLog[i].session_id = id /\ enqLog[i].sequence_number = k
  /\ \A i \in DOMAIN enqLog :
       (enqLog[i].session_id = id /\ enqLog[i].sequence_number = k)
       => /\ i <= qhead
          /\ \A job \in jobs : job.req # i
          /\ \A resp \in hist.handed[id] : resp.text[1][1] # i

\* C14: once some chunk 0 .. L of a session with last_sequence = L can have
\* no response any more, no step finalizes the session or writes its
\* transcript file
C14_MissingResponseBlocks ==
  [][\A id \in SessionIds :
       (/\ Live(id) /\ store[id].last_sequence # None
        /\ \E k \in 0 .. store[id].last_sequence : NeverAnswered(id, k))
       => /\ hist'.finalized[id] <= hist.finalized[id]
          /\ disk'[store[id].uuid].txt = disk[store[id].uuid].txt]_vars

\* the status the session of the uuid shows after the step
StatusAfter(uuid) ==
  LET id == CHOOSE i \in SessionIds : store'[i].present /\ store'[i].uuid = uuid
  IN  [language |-> store'[id].language, uuid |-> store'[id].uuid,
       transcription_job_count |-> store'[id].sequence_number,
       transcription_completed_count |-> translation_count(translations'[id])]

\* C15: a session that had enqueued two chunks and completed two when the
\* process stopped shows, once restored, a status with job count 2,
\* completed count 2 and its language and uuid
C15_RestoredStatusCounts ==
  [][restore_sessions
     => \A id \in SessionIds :
          (/\ Live(id) /\ hist.finalized[id] >= 1
           /\ Len(RequestsOf(id)) = 2
           /\ get_translation_count(id) = 2
           /\ store[id].uuid \in SavedUuids)
          => /\ StatusAfter(store[id].uuid).transcription_job_count = 2
             /\ StatusAfter(store[id].uuid).transcription_completed_count = 2
             /\ StatusAfter(store[id].uuid).language = store[id].language
             /\ StatusAfter(store[id].uuid).uuid = store[id].uuid]_vars

\* the session is streaming: its socket is open and no end-of-stream has
\* begun, neither by the reader nor by POST /close
Streaming(id) ==
  /\ Live(id) /\ reader[id].pc \in {"recv", "append", "commit"}
  /\ closer[id]["ws"].pc = "idle" /\ hist.posts = 0
  /\ store[id].last_sequence = None

\* the requests of the session whose final response has been integrated
CompletedRequests(id) ==
  {i \in DOMAIN enqLog :
     /\ enqLog[i].session_id = id
     /\ \E resp \in hist.handed[id] : resp.text[1][1] = i /\ IsFinal(resp)}

\* C16: at every moment of a streaming session its status shows the number
\* of requests enqueued for it so far as job count and the number of chunks
\* whose responses have been integrated as completed count
C16_StatusWhileStreaming ==
  \A id \in SessionIds :
    Streaming(id)
    => /\ status(id).transcription_job_count = Len(RequestsOf(id))
       /\ status(id).transcription_completed_count = Cardinality(CompletedRequests(id))

\* a subscriber receives a request
SubscribeStep == \E n \in 0 .. MaxSegments, fails \in BOOLEAN : subscribe(n, fails)

\* C17: a subscriber's receive takes exactly one request off the queue, the
\* oldest one, which no worker holds or has answered; and while a subscriber
\* is free a queued request can be received
C17_ExactlyOnce ==
  [][/\ SubscribeStep
        => /\ qhead' = qhead + 1
           /\ \A job \in jobs' \ jobs : job.req = qhead'
           /\ \A job \in jobs : job.req # qhead'
           /\ \A id \in SessionIds : \A resp \in hist.handed[id] : resp.text[1][1] # qhead'
     /\ (qhead < Len(enqLog) /\ Cardinality(jobs) + deadWorkers < NumWorkers)
        => ENABLED SubscribeStep]_vars

\* C17 witness: two subscribers are translating at the same time, each a
\* request of its own
C17_Witness ==
  /\ qhead >= 2
  /\ \E j1, j2 \in jobs : j1.req # j2.req

\* C18: a subscriber whose check finds the request's session absent or
\* invalid starts no translation of the request and goes on subscribed
C18_InvalidDropped ==
  [][(/\ SubscribeStep
      /\ LET session == store[enqLog[qhead + 1].session_id]
         IN  ~session.present \/ ~session.valid)
     => /\ jobs' = jobs
        /\ deadWorkers' = deadWorkers
        /\ qhead' = qhead + 1]_vars

\* C18 witness: a request with samples in it was received after its session
\* had become invalid, and was dropped: no worker holds it, it has no
\* response, and no subscriber has been lost
C18_Witness ==
  \E i \in DOMAIN enqLog :
    /\ i <= qhead /\ enqLog[i].payload # <<>>
    /\ Live(enqLog[i].session_id) /\ ~store[enqLog[i].session_id].valid
    /\ deadWorkers = 0
    /\ \A job \in jobs : job.req # i
    /\ \A resp \in hist.handed[enqLog[i].session_id] : resp.text[1][1] # i

\* C19: a response handed to process_transcription for a session that is
\* invalid is discarded: the collection stays as it is and nothing is
\* finalized (an invalid session has no sender to send it on)
C19_InvalidDiscarded ==
  [][\A id \in SessionIds :
       (store[id].present /\ ~store[id].valid /\ Integrates(id))
       => /\ translations'[id] = translations[id]
          /\ hist'.finalized[id] = hist.finalized[id]]_vars

\* C20: once the stream of a connection that never produced a chunk has
\* ended (idle timeout or close frame, sequence counter still 0) and its
\* closure has run, the session record is invalid
C20_ZeroAudioInvalid ==
  \A id \in SessionIds :
    (ZeroAudioEnded(id) /\ closer[id]["ws"].pc = "done") => ~store[id].valid

\* C21: last_sequence is write-once: once a session's last_sequence is set,
\* no step of the same process lifetime changes it to another value
C21_LastSequenceWriteOnce ==
  [][\A id \in SessionIds :
       (Live(id) /\ store[id].last_sequence # None /\ Live(id)')
       => store'[id].last_sequence = store[id].last_sequence]_vars

\* the response cannot reach the client: the session has no sender, the pump
\* has left its loop, or the socket refuses the message in this step
CannotSend(id) ==
  \/ ~store[id].tx
  \/ pump[id].pc # "loop"
  \/ pump'[id].pc = "flush"

\* C22: when process_transcription cannot send a response to the client, the
\* response is still added to the session's collection and the finalization
\* test still runs on the collection that holds it
C22_UnsentStillIntegrated ==
  [][\A id \in SessionIds :
       (Integrates(id) /\ CannotSend(id))
       => \A resp \in hist'.handed[id] \ hist.handed[id] :
            /\ translations'[id] = add_translation(translations[id], resp)
            /\ ShouldFinalize(store[id], resp, translations'[id])
               => /\ ~store'[id].valid
                  /\ hist'.finalized[id] = hist.finalized[id] + 1]_vars

\* a response was added although the socket had refused a message before:
\* the pump has left its loop while the session still holds its sender
C22_Witness ==
  \E id \in SessionIds :
    /\ Live(id) /\ store[id].tx /\ pump[id].pc = "flush"
    /\ translations[id] # {}

\* the step is the Err arm of user_message on session id
EnqueueErrorHandled(id) ==
  reader[id].pc = "failed" /\ reader'[id].pc = "recv" /\ store[id].present

\* C23: when the enqueue of a cut chunk fails in user_message, the session is
\* left invalid and without sender, with the sequence number and the buffer
\* it had before: the chunk stays in the buffer and the counter is not
\* bumped; and it stays invalid and without sender from then on
C23_EnqueueFailureInvalidates ==
  [][\A id \in SessionIds :
       /\ EnqueueErrorHandled(id)
          => /\ ~store'[id].valid /\ ~store'[id].tx
             /\ store'[id].sequence_number = store[id].sequence_number
             /\ store'[id].buffer = store[id].buffer
       /\ (Live(id) /\ Live(id)' /\ ~store[id].valid)
          => (~store'[id].valid /\ ~store'[id].tx)]_vars

\* a session was invalidated by a failed enqueue: invalid with its chunk
\* still buffered, never closed and never finalized
C23_Witness ==
  \E id \in SessionIds :
    /\ Live(id) /\ ~store[id].valid /\ ~store[id].tx
    /\ store[id].last_sequence = None /\ hist.finalized[id] = 0
    /\ store[id].buffer # <<>> /\ reader[id].pc = "recv"

\* C24: a recognizer failure on one request does not end the worker's
\* subscribe loop: a step in which a subscriber receives a request leaves
\* every subscriber in its loop, free or busy, to receive the requests
\* enqueued after it
C24_WorkerSurvivesFailure ==
  [][qhead' = qhead + 1 => deadWorkers' = deadWorkers]_vars

\* a step of the running sweep
SweepStep == (\E id \in SessionIds : expire_visit(id)) \/ expire_return

\* C25: the expiry sweep terminates (while it has not returned it always has
\* a step to take), and when it has returned the store holds exactly the
\* sessions that were there at its start and were not more than 24 h old
C25_SweepRemovesExpired ==
  /\ sweep.pc \in {"iter", "blocked"} => ENABLED SweepStep
  /\ sweep.pc = "done"
     => \A id \in SessionIds :
          store[id].present
          <=> (sweep.start[id].present /\ ~Expired(sweep.start[id], sweep.now))

\* the stored sessions whose metadata.json is there and parses
GoodUuids == {u \in SavedUuids : Parses(disk[u].metadata.data)}

\* C26: when restore_sessions has run on a directory in which some
\* metadata.json is missing or does not parse, it has returned Ok and every
\* stored session with good metadata is in the store
C26_BadMetadataSkipped ==
  boot # "none"
  => /\ boot = "Ok"
     /\ \A u \in GoodUuids : \E id \in SessionIds :
          store[id].present /\ store[id].uuid = u

\* C27: no request is enqueued for a session whose valid flag is false when
\* the request is enqueued: not for a restored session, not by POST /close,
\* not by the exit path of the outbound pump
C27_NoEnqueueWhenInvalid ==
  [][\A i \in (Len(enqLog) + 1) .. Len(enqLog') :
       store[enqLog'[i].session_id].valid]_vars

\* the tasks whose next step is a call of persist_session_data for the
\* session: the reader task (in user_message, or in mark_session_for_closure
\* after its loop), the handler of POST /close, the pump task
AtPersist(id) ==
  {t \in {"reader", "http", "pump"} :
     \/ t = "reader" /\ reader[id].pc = "append" /\ reader[id].snap.buffer # <<>>
     \/ t = "reader" /\ closer[id]["ws"].pc = "get" /\ store[id].sequence_number # 0
     \/ t = "http" /\ closer[id]["http"].pc = "get" /\ store[id].sequence_number # 0
     \/ t = "pump" /\ pump[id].pc = "bump"}

\* the step is one of the session's reader task
ReaderTaskStep(id) ==
  user_message_cut(id) \/ mark_session_for_closure_get(id, "ws")

\* C28: a session's WAV file is written by steps of its reader task only,
\* and never are two tasks at a call of persist_session_data for the same
\* session at the same time
C28_SingleWavWriter ==
  /\ [][\A id \in SessionIds :
          (Live(id) /\ Live(id)' /\ disk'[store[id].uuid].wav # disk[store[id].uuid].wav)
          => ReaderTaskStep(id)]_vars
  /\ [](\A id \in SessionIds : Live(id) => Cardinality(AtPersist(id)) <= 1)

\* C29: in every state of the store a session that is not valid has no
\* outbound sender
C29_InvalidHasNoSender ==
  \A id \in SessionIds : (store[id].present /\ ~store[id].valid) => ~store[id].tx

\* both ways of clearing valid have been taken in one process lifetime's
\* reach: a session finalized by process_transcription is in the store
C29_Witness ==
  \E id \in SessionIds :
    /\ Live(id) /\ ~store[id].valid /\ ~store[id].tx
    /\ hist.finalized[id] >= 1

====
